---- MODULE Spec2Model ----
(***************************************************************************)
(* Model of src/index.js: the autocannon load-test runner that measures    *)
(* each scenario, saves the raw JSON, renders charts, writes one PDF per   *)
(* scenario and, for two or more scenarios, a comparison PDF.              *)
(*                                                                         *)
(* Spec      : runTests and the two express routes (control flow, files,   *)
(*             promises, process state).                                   *)
(* SpecDoc   : the page layout of one document, either the body of the     *)
(*             generatePDF promise or of generateComparisonReport.         *)
(*             Lengths are in 1/1000 of a PDF point.                       *)
(* SpecCharts: the timeline reconstruction of generateCharts.              *)
(* SpecMeasure: the response handler of runTest over successive calls.    *)
(***************************************************************************)
EXTENDS Integers, Sequences, FiniteSets, TLC

\* ------------------------------------------------------------------ bounds
MaxRunScenarios == 3
\* scenarios handed to generateComparisonReport
MaxCmpScenarios == 5
\* lines of the payload preview printed by generatePDF (a preview of at
\* most 500 characters has about a hundred lines at most)
MaxPayloadLines == 101
\* entries of result.statusCodeStats
MaxStatusCodes == 2
\* largest elapsed second that has a counter
MaxSecond == 11
\* number of seconds that have a counter
MaxKeys == 3
\* largest per-second count
MaxCount == 2
\* largest result.duration
MaxDuration == 3

\* runTest calls of one run whose response events are followed
MaxRuns == 2
\* connections autocannon sets up over the run
MaxClients == 2
\* largest reading of the clock, in ticks
MaxTime == 2
\* response events delivered over the run
MaxEvents == 4
\* ticks of the model's clock per second of process.hrtime, so that
\* Math.floor(elapsed[0]) truncates
TicksPerSecond == 2

\* metric values a measurement may report: <<latency.average, requests.average>>
Metrics == {<<1, 1>>, <<1, 2>>, <<2, 1>>, <<2, 2>>}

VARIABLES
  mode,          \* "cli": require.main === module; "server": app.listen
  config,        \* parsed config file: [kind: "list"|"single", n: number of scenarios]
  pc,            \* position of the one runTests() call
  scenario,      \* index of the scenario the for-loop of runTests is at
  proc,          \* "running" | "exited"
  unhandled,     \* TRUE once a promise rejection had no handler
  response,      \* answer of GET /run-test: "none" | "ack" | "error500"
  reports,       \* answer of the last GET /reports
  dirs,          \* directories that exist
  started,       \* scenarios whose measurement (runTest) has started
  measured,      \* scenarios whose measurement has completed
  saved,         \* scenarios whose result JSON is on disk
  genStarted,    \* scenarios for which generatePDF was called
  chartsDone,    \* scenarios whose charts are rendered
  renderFailed,  \* scenarios whose chart or document rendering threw
  docState,      \* per document: "none" | "ended" | "flushed"; 0 is the comparison
  testResults,   \* the array runTests accumulates: <<[name, lat, rps]>>
  mkdirLog,      \* the calls of fs.mkdirSync: [dir, started: measurements begun]
  docKind,       \* "single": generatePDF; "comparison": generateComparisonReport
  lpc,           \* position inside the function that writes the document
  doc,           \* the PDFDocument cursor: [y, page, fontSize]
  payloadLines,  \* lines of JSON.stringify(config.payload, null, 2); 0: no payload
  result,        \* [hasStats, nCodes, p1]: shape of the measurement result
  charts,        \* names of the chart buffers generateCharts returned
  placed,        \* what has been drawn: [kind, page, top, bottom, batch]
  sections,      \* titled blocks that have been written to the document
  chk,           \* the last call of checkAndAddPage and its outcome
  batches,       \* the slices of testResults of the detail table
  batchIndex,    \* index (from 0) of the batch being drawn
  metric,        \* index (from 1) of the next row of metrics
  rowY,          \* rowY of the table code
  compCharts,    \* the two comparison charts: labels, colors, orderings
  callouts,      \* the "Best Latency" and "Best Throughput" lines
  cpc,              \* position inside generateCharts
  requestsTimeline, \* result.requestsTimeline: key string -> count
  requestsKeys,     \* the numeric-keyed entries of result.requests
  duration,         \* result.duration; 0 when it is missing
  timeLabels,       \* timeLabels of generateCharts
  timelineData,     \* timelineData of generateCharts
  thrown,           \* the error generateCharts threw, "" if none
  configDuration,   \* duration of the test configuration; 0 when it is missing
  requestsPerSecond, \* per runTest call, its requestsPerSecond object
  clients,           \* per connection: the runTest call that set it up, testStart
  hrtime,            \* the clock process.hrtime reads, in ticks
  delivered,         \* per runTest call, the response events its clients got
  attached,          \* per returned runTest call: result.requestsTimeline
  lastEvent          \* the connection of the last response event, 0 if none

runVars == <<mode, config, pc, scenario, proc, unhandled, response, reports,
             dirs, started, measured, saved, genStarted, chartsDone,
             renderFailed, docState, testResults, mkdirLog>>

docVars == <<docKind, lpc, doc, payloadLines, result, charts, placed,
             sections, chk, batches, batchIndex, metric, rowY>>

chartVars == <<cpc, requestsTimeline, requestsKeys, duration, timeLabels,
               timelineData, thrown, configDuration>>

rankVars == <<compCharts, callouts>>

measureVars == <<requestsPerSecond, clients, hrtime, delivered, attached,
                 lastEvent>>

vars == <<runVars, docVars, chartVars, rankVars, measureVars>>

\* what the actions of runTests leave alone
notRunVars == <<docVars, chartVars, rankVars, measureVars>>
\* what the actions that write a document leave alone
notDocVars == <<runVars, chartVars, measureVars>>
\* what the actions of generateCharts leave alone
notChartVars == <<runVars, docVars, rankVars, measureVars>>
\* what the actions of runTest and its response handler leave alone
notMeasureVars == <<docVars, chartVars, rankVars>>

ComparisonDoc == 0
DocIds == 0..MaxRunScenarios

\* ------------------------------------------------------------ pure helpers

\* Array.prototype.sort is stable: an element is inserted after the last
\* element the comparator does not put behind it.
\* comparator (a, b) => a.result.latency.average - b.result.latency.average
RECURSIVE insertByLatency(_, _)
insertByLatency(x, s) ==
  IF s = <<>> THEN <<x>>
  ELSE IF x.lat - Head(s).lat < 0 THEN <<x>> \o s
       ELSE <<Head(s)>> \o insertByLatency(x, Tail(s))

\* testResults.sort((a, b) => a.result.latency.average - b.result.latency.average)
RECURSIVE sortByLatency(_)
sortByLatency(s) ==
  IF s = <<>> THEN <<>>
  ELSE insertByLatency(s[Len(s)], sortByLatency(SubSeq(s, 1, Len(s) - 1)))

\* ----------------------------------------------------------- runTests etc.

\* res.json({message: "Tests started..."}) runs when the synchronous part of
\* runTests() has returned its promise to the route handler.
ack(r) == IF mode = "server" /\ r = "none" THEN "ack" ELSE r

\* A rejection of the promise of runTests(): both callers attach .then()
\* only, so the rejection is unhandled; Node either warns or terminates.
rejectRun ==
  /\ pc' = "rejected"
  /\ unhandled' = TRUE
  /\ proc' \in {"running", "exited"}
  /\ response' = ack(response)

\* require.main === module: runTests() is called at start-up.
\* app.get("/run-test"): the handler calls runTests().
runTestRoute ==
  /\ proc = "running" /\ mode = "server" /\ pc = "idle"
  /\ UNCHANGED <<notRunVars, mkdirLog>>
  /\ pc' = "loadConfig"
  /\ UNCHANGED <<mode, config, scenario, proc, unhandled, response, reports,
                 dirs, started, measured, saved, genStarted, chartsDone,
                 renderFailed, docState, testResults>>

\* app.get("/reports")
reportsRoute ==
  /\ proc = "running" /\ mode = "server"
  /\ UNCHANGED <<notRunVars, mkdirLog>>
  /\ IF "reports" \notin dirs
       THEN reports' = "No reports found"
       ELSE reports' \in {"list", "error500"}
  /\ UNCHANGED <<mode, config, pc, scenario, proc, unhandled, response,
                 dirs, started, measured, saved, genStarted, chartsDone,
                 renderFailed, docState, testResults>>

loadConfig ==
  /\ proc = "running" /\ pc = "loadConfig"
  /\ UNCHANGED <<notRunVars, mkdirLog>>
  /\ \/ /\ pc' = "mkdirReports"
        /\ UNCHANGED proc
     \/ /\ proc' = "exited"          \* catch: process.exit(1)
        /\ UNCHANGED pc
  /\ UNCHANGED <<mode, config, scenario, unhandled, response, reports,
                 dirs, started, measured, saved, genStarted, chartsDone,
                 renderFailed, docState, testResults>>

\* if (!fs.existsSync(dirPath)) fs.mkdirSync(dirPath, ...): the log of the
\* calls of mkdirSync, each with the number of measurements begun before it
mkdirSync(dirPath) ==
  IF dirPath \notin dirs
    THEN mkdirLog \cup {[dir |-> dirPath, started |-> Cardinality(started)]}
    ELSE mkdirLog

\* ensureDirectoryExists(dirPath) called from runTests at position at;
\* mkdirSync may throw.
ensureDirectoryExists(at, dirPath, next) ==
  /\ proc = "running" /\ pc = at
  /\ UNCHANGED notRunVars
  /\ mkdirLog' = mkdirSync(dirPath)
  /\ \/ /\ dirs' = dirs \cup {dirPath}
        /\ pc' = next
        /\ UNCHANGED <<proc, unhandled, response>>
     \/ /\ dirPath \notin dirs
        /\ rejectRun
        /\ UNCHANGED dirs
  /\ UNCHANGED <<mode, config, scenario, reports, started, measured, saved,
                 genStarted, chartsDone, renderFailed, docState,
                 testResults>>

mkdirReports == ensureDirectoryExists("mkdirReports", "reports", "mkdirJson")
mkdirJson == ensureDirectoryExists("mkdirJson", "reports/json", "loop")

\* for (const scenario of config.scenarios) / the single-config branch:
\* runTest(...) up to `await instance`.
runTestStart ==
  /\ proc = "running" /\ pc = "loop" /\ scenario <= config.n
  /\ UNCHANGED <<notRunVars, mkdirLog>>
  /\ started' = started \cup {scenario}
  /\ pc' = "measuring"
  /\ response' = ack(response)
  /\ UNCHANGED <<mode, config, scenario, proc, unhandled, reports, dirs,
                 measured, saved, genStarted, chartsDone, renderFailed,
                 docState, testResults>>

\* `const result = await instance` resolves or rejects.
runTestDone ==
  /\ proc = "running" /\ pc = "measuring"
  /\ UNCHANGED <<notRunVars, mkdirLog>>
  /\ \/ /\ measured' = measured \cup {scenario}
        /\ pc' = "save"
        /\ UNCHANGED <<proc, unhandled, response>>
     \/ /\ rejectRun
        /\ UNCHANGED measured
  /\ UNCHANGED <<mode, config, scenario, reports, dirs, started, saved,
                 genStarted, chartsDone, renderFailed, docState,
                 testResults>>

\* A saveTestResults that does not write the file before returning.
saveTestResults_noWrite ==
  /\ proc = "running" /\ pc = "save"
  /\ UNCHANGED <<notRunVars, mkdirLog>>
  /\ \E m \in Metrics :
       testResults' =
         IF config.kind = "list"
           THEN Append(testResults,
                       [name |-> scenario, lat |-> m[1], rps |-> m[2]])
           ELSE testResults
  /\ pc' = "charts"
  /\ UNCHANGED <<mode, config, scenario, proc, unhandled, response, reports,
                 dirs, started, measured, saved, genStarted, chartsDone,
                 renderFailed, docState>>

\* saveTestResults(result, name, resultsDir) followed, in the scenario
\* loop, by testResults.push({name, result}).
saveTestResults ==
  /\ proc = "running" /\ pc = "save"
  /\ UNCHANGED <<notRunVars, mkdirLog>>
  /\ \/ /\ saved' = saved \cup {scenario}
        /\ \E m \in Metrics :
             testResults' =
               IF config.kind = "list"
                 THEN Append(testResults,
                             [name |-> scenario, lat |-> m[1], rps |-> m[2]])
                 ELSE testResults
        /\ pc' = "charts"
        /\ UNCHANGED <<proc, unhandled, response>>
     \/ /\ rejectRun                  \* writeFileSync throws
        /\ UNCHANGED <<saved, testResults>>
  /\ UNCHANGED <<mode, config, scenario, reports, dirs, started, measured,
                 genStarted, chartsDone, renderFailed, docState>>

\* generatePDF line 241: await generateCharts(result).
generateCharts ==
  /\ proc = "running" /\ pc = "charts"
  /\ UNCHANGED notRunVars
  /\ mkdirLog' = mkdirSync("charts")
  /\ genStarted' = genStarted \cup {scenario}
  /\ \/ /\ dirs' = dirs \cup {"charts"}
        /\ chartsDone' = chartsDone \cup {scenario}
        /\ pc' = "doc"
        /\ UNCHANGED <<proc, unhandled, response, renderFailed>>
     \/ /\ "charts" \notin dirs      \* mkdirSync throws
        /\ rejectRun
        /\ UNCHANGED <<dirs, chartsDone, renderFailed>>
     \/ /\ dirs' = dirs \cup {"charts"}
        /\ renderFailed' = renderFailed \cup {scenario}  \* renderToBuffer rejects
        /\ rejectRun
        /\ UNCHANGED chartsDone
  /\ UNCHANGED <<mode, config, scenario, reports, started, measured, saved,
                 docState, testResults>>

\* Position of runTests once `await generatePDF(...)` has completed.
afterReport == IF config.kind = "list" THEN "loop" ELSE "complete"

\* A generatePDF that resolves as soon as doc.end() has been called.
afterDocEnd_resolveAtEnd == afterReport

\* Position of runTests after the synchronous body of the generatePDF
\* promise has called doc.end(): resolve() is only called by the 'finish'
\* listener of the write stream (lines 252-255).
afterDocEnd == "awaitFinish"

\* generatePDF lines 243-407: the promise executor.
generatePDF ==
  /\ proc = "running" /\ pc = "doc"
  /\ UNCHANGED <<notRunVars, mkdirLog>>
  /\ \/ /\ docState' = [docState EXCEPT ![scenario] = "ended"]
        /\ pc' = afterDocEnd
        /\ scenario' = IF afterDocEnd = "awaitFinish" THEN scenario
                                                      ELSE scenario + 1
        /\ UNCHANGED <<proc, unhandled, response, renderFailed>>
     \/ /\ renderFailed' = renderFailed \cup {scenario}  \* doc.image throws
        /\ rejectRun
        /\ UNCHANGED <<docState, scenario>>
  /\ UNCHANGED <<mode, config, reports, dirs, started, measured, saved,
                 genStarted, chartsDone, testResults>>

\* writeStream.on("finish", () => { ...; resolve(); })
pdfFinish ==
  /\ proc = "running"
  /\ UNCHANGED <<notRunVars, mkdirLog>>
  /\ \E d \in 1..MaxRunScenarios :
       /\ docState[d] = "ended"
       /\ docState' = [docState EXCEPT ![d] = "flushed"]
       /\ IF pc = "awaitFinish" /\ d = scenario
            THEN /\ pc' = afterReport
                 /\ scenario' = scenario + 1
            ELSE UNCHANGED <<pc, scenario>>
  /\ UNCHANGED <<mode, config, proc, unhandled, response, reports, dirs,
                 started, measured, saved, genStarted, chartsDone,
                 renderFailed, testResults>>

\* fs.createWriteStream cannot open the path: 'error' is emitted on a
\* stream without an 'error' listener, which is an uncaught exception.
streamError ==
  /\ proc = "running"
  /\ UNCHANGED <<notRunVars, mkdirLog>>
  /\ \E d \in DocIds : docState[d] = "ended"
  /\ proc' = "exited"
  /\ UNCHANGED <<mode, config, pc, scenario, unhandled, response, reports,
                 dirs, started, measured, saved, genStarted, chartsDone,
                 renderFailed, docState, testResults>>

\* End of the scenario loop: if (testResults.length > 1) ...
afterLoop ==
  /\ proc = "running" /\ pc = "loop" /\ scenario > config.n
  /\ UNCHANGED <<notRunVars, mkdirLog>>
  /\ pc' = IF Len(testResults) > 1 THEN "comparison" ELSE "complete"
  /\ response' = ack(response)
  /\ UNCHANGED <<mode, config, scenario, proc, unhandled, reports, dirs,
                 started, measured, saved, genStarted, chartsDone,
                 renderFailed, docState, testResults>>

\* generateComparisonReport lines 570-721: in-place sort, chart rendering.
comparisonCharts ==
  /\ proc = "running" /\ pc = "comparison"
  /\ UNCHANGED <<notRunVars, mkdirLog>>
  /\ testResults' = sortByLatency(testResults)
  /\ \/ /\ pc' = "comparisonDoc"
        /\ UNCHANGED <<proc, unhandled, response>>
     \/ rejectRun                    \* renderToBuffer rejects
  /\ UNCHANGED <<mode, config, scenario, reports, dirs, started, measured,
                 saved, genStarted, chartsDone, renderFailed,
                 docState>>

\* generateComparisonReport lines 724-983: the document is written and
\* doc.end() called; the function returns without waiting for 'finish'.
comparisonDoc ==
  /\ proc = "running" /\ pc = "comparisonDoc"
  /\ UNCHANGED <<notRunVars, mkdirLog>>
  /\ docState' = [docState EXCEPT ![ComparisonDoc] = "ended"]
  /\ pc' = "complete"
  /\ UNCHANGED <<mode, config, scenario, proc, unhandled, response, reports,
                 dirs, started, measured, saved, genStarted, chartsDone,
                 renderFailed, testResults>>

\* console.log("\nAll tests completed"); the promise of runTests resolves.
allTestsCompleted ==
  /\ proc = "running" /\ pc = "complete"
  /\ UNCHANGED <<notRunVars, mkdirLog>>
  /\ pc' = "done"
  /\ response' = ack(response)
  /\ UNCHANGED <<mode, config, scenario, proc, unhandled, reports, dirs,
                 started, measured, saved, genStarted, chartsDone,
                 renderFailed, docState, testResults>>

\* writeStream.on("finish", ...) of the comparison report: only logs.  The
\* stream finishes on a later turn of the event loop than the continuation
\* of `await generateComparisonReport(...)`.
comparisonFinish ==
  /\ proc = "running" /\ pc = "done"
  /\ UNCHANGED <<notRunVars, mkdirLog>>
  /\ docState[ComparisonDoc] = "ended"
  /\ docState' = [docState EXCEPT ![ComparisonDoc] = "flushed"]
  /\ UNCHANGED <<mode, config, pc, scenario, proc, unhandled, response,
                 reports, dirs, started, measured, saved, genStarted,
                 chartsDone, renderFailed, testResults>>

\* generateCharts is not running
NoCharts ==
  /\ cpc = "none"
  /\ requestsTimeline = <<>> /\ requestsKeys = <<>>
  /\ duration = 0
  /\ timeLabels = <<>> /\ timelineData = <<>>
  /\ thrown = ""
  /\ configDuration = 0

\* no document is being written
NoDoc ==
  /\ docKind = "none" /\ lpc = "none"
  /\ doc = [y |-> 0, page |-> 0, fontSize |-> 0]
  /\ payloadLines = 0
  /\ result = [hasStats |-> FALSE, nCodes |-> 0, p1 |-> FALSE]
  /\ charts = {} /\ placed = {} /\ sections = {}
  /\ chk = [called |-> FALSE]
  /\ batches = <<>> /\ batchIndex = 0 /\ metric = 0 /\ rowY = 0
  /\ compCharts = [built |-> FALSE]
  /\ callouts = [written |-> FALSE]

\* no runTest call has been made
NoMeasure ==
  /\ requestsPerSecond = <<>>
  /\ clients = [c \in 1..MaxClients |-> [run |-> 0, testStart |-> 0]]
  /\ hrtime = 0
  /\ delivered = <<>>
  /\ attached = <<>>
  /\ lastEvent = 0

Init ==
  /\ mode \in {"cli", "server"}
  /\ config \in {[kind |-> "single", n |-> 1]}
                 \cup {[kind |-> "list", n |-> n] : n \in 0..MaxRunScenarios}
  /\ pc = IF mode = "cli" THEN "loadConfig" ELSE "idle"
  /\ scenario = 1
  /\ proc = "running"
  /\ unhandled = FALSE
  /\ response = "none"
  /\ reports = "none"
  /\ dirs \in {{}, {"reports", "reports/json"},
               {"reports", "reports/json", "charts"}}
  /\ mkdirLog = {}
  /\ started = {} /\ measured = {} /\ saved = {}
  /\ genStarted = {} /\ chartsDone = {} /\ renderFailed = {}
  /\ docState = [d \in DocIds |-> "none"]
  /\ testResults = <<>>
  /\ NoDoc
  /\ NoCharts
  /\ NoMeasure

Next ==
  \/ runTestRoute
  \/ reportsRoute
  \/ loadConfig
  \/ mkdirReports
  \/ mkdirJson
  \/ runTestStart
  \/ runTestDone
  \/ saveTestResults
  \/ generateCharts
  \/ generatePDF
  \/ pdfFinish
  \/ streamError
  \/ afterLoop
  \/ comparisonCharts
  \/ comparisonDoc
  \/ allTestsCompleted
  \/ comparisonFinish

Spec == Init /\ [][Next]_vars

\* ------------------------------------------------- document layout (pdfkit)

\* size: "A4" is 595.28 x 841.89 points; margin: 50 on every side
PageWidth == 595280
PageHeight == 841890
Margin == 50000
\* ChartJSNodeCanvas({width, height}): pixel size of every chart image
ChartWidth == 600
ChartHeight == 300

\* doc.page.height - doc.page.margins.bottom
maxY == PageHeight - Margin

\* doc.currentLineHeight(true) of the standard Helvetica fonts:
\* 1.156 times the font size
lineHeight(size) == 1156 * size

\* doc.fontSize(n)
fontSize(d, n) == [d EXCEPT !.fontSize = n]

\* doc.addPage(): the cursor goes to the top margin of a fresh page
addPage(d) == [d EXCEPT !.y = Margin, !.page = @ + 1]

\* doc.moveDown(n), n given in half lines: the cursor advances, no page break
moveDown(d, halves) ==
  [d EXCEPT !.y = @ + (lineHeight(d.fontSize) * halves) \div 2]

\* doc.text(...) of so many lines at the cursor: a line is put on the
\* current page while it fits above the bottom margin (y + lineHeight <=
\* maxY), otherwise the text continues at the top margin of a new page
text(d, lines) ==
  LET lh == lineHeight(d.fontSize)
      fit == IF d.y > maxY THEN 0 ELSE (maxY - d.y) \div lh
      perPage == (maxY - Margin) \div lh
      rest == lines - fit
      added == (rest + perPage - 1) \div perPage
  IN  IF lines <= fit
        THEN [d EXCEPT !.y = @ + lines * lh]
        ELSE [d EXCEPT !.page = @ + added,
                       !.y = Margin + (rest - (added - 1) * perPage) * lh]

\* doc.text(str, x, y, options): one line at an explicit position
textAt(d, atY) == text([d EXCEPT !.y = atY], 1)

\* height of a ChartWidth x ChartHeight image drawn with fit: [bw, bh]
fitHeight(bw, bh) ==
  IF ChartWidth * bh > bw * ChartHeight
    THEN (bw * ChartHeight) \div ChartWidth
    ELSE bh

\* doc.image(buffer, {fit: [bw, bh]}): drawn at the cursor, which advances
\* by the height of the image; an image never starts a new page
image(d, bw, bh) == [d EXCEPT !.y = @ + fitHeight(bw, bh) * 1000]

\* the drawn thing, for the record of what is on which page
item(kind, page, top, bottom, batch) ==
  [kind |-> kind, page |-> page, top |-> top, bottom |-> bottom,
   batch |-> batch]

imageItem(d, bw, bh) ==
  item("image", d.page, d.y, d.y + fitHeight(bw, bh) * 1000, 0)

\* A checkAndAddPage whose comparison is the wrong way round.
checkAndAddPage_inverted(d, requiredHeight) ==
  LET currentY == d.y
      availableSpace == PageHeight - Margin - currentY
  IN  IF availableSpace > requiredHeight
        THEN [doc |-> addPage(d), ret |-> TRUE]
        ELSE [doc |-> d, ret |-> FALSE]

\* A checkAndAddPage that forgets the bottom margin.
checkAndAddPage_noMargin(d, requiredHeight) ==
  LET currentY == d.y
      availableSpace == PageHeight - currentY
  IN  IF availableSpace < requiredHeight
        THEN [doc |-> addPage(d), ret |-> TRUE]
        ELSE [doc |-> d, ret |-> FALSE]

\* checkAndAddPage of generatePDF (lines 260-270)
checkAndAddPage(d, requiredHeight) ==
  LET currentY == d.y
      availableSpace == PageHeight - Margin - currentY
  IN  IF availableSpace < requiredHeight
        THEN [doc |-> addPage(d), ret |-> TRUE]
        ELSE [doc |-> d, ret |-> FALSE]

\* checkAndAddPage of generateComparisonReport (lines 743-752)
checkAndAddPage_comparison(d, requiredHeight) ==
  LET currentY == d.y
      availableSpace == PageHeight - Margin - currentY
  IN  IF availableSpace < requiredHeight
        THEN [doc |-> addPage(d), ret |-> TRUE]
        ELSE [doc |-> d, ret |-> FALSE]

\* the record kept of a call of checkAndAddPage
checked(d, requiredHeight, r) ==
  [called |-> TRUE, h |-> requiredHeight, y |-> d.y, page |-> d.page,
   ret |-> r.ret, newY |-> r.doc.y, newPage |-> r.doc.page]

\* ---------------------------------------------- generatePDF, lines 243-407

\* lines 272-302: header, test configuration, payload preview, summary title
pdfHeader ==
  /\ docKind = "single" /\ lpc = "header"
  /\ UNCHANGED rankVars
  /\ LET d1 == moveDown(text(fontSize(doc, 24), 1), 2)
         d2 == moveDown(text(fontSize(d1, 14), 1), 4)
         d3 == text(fontSize(text(fontSize(d2, 16), 1), 12), 4)
         d4 == IF payloadLines > 0
                 THEN text(text(moveDown(d3, 2), 1), payloadLines)
                 ELSE d3
         d5 == moveDown(d4, 4)
     IN  doc' = moveDown(text(fontSize(d5, 16), 1), 2)
  /\ sections' = sections \cup
       (IF payloadLines > 0 THEN {"Payload"} ELSE {})
  /\ lpc' = "checkLatency"
  /\ UNCHANGED <<notDocVars, docKind, payloadLines, result, charts, placed, chk,
                 batches, batchIndex, metric, rowY>>

\* line 306: checkAndAddPage(300)
pdfCheckLatency ==
  /\ docKind = "single" /\ lpc = "checkLatency"
  /\ UNCHANGED rankVars
  /\ LET r == checkAndAddPage(doc, 300000)
     IN  /\ doc' = r.doc
         /\ chk' = checked(doc, 300000, r)
  /\ lpc' = "imageLatency"
  /\ UNCHANGED <<notDocVars, docKind, payloadLines, result, charts, placed,
                 sections, batches, batchIndex, metric, rowY>>

\* lines 307-311
pdfImageLatency ==
  /\ docKind = "single" /\ lpc = "imageLatency"
  /\ UNCHANGED rankVars
  /\ placed' = placed \cup {imageItem(doc, 450, 225)}
  /\ doc' = moveDown(image(doc, 450, 225), 2)
  /\ lpc' = "checkRequests"
  /\ UNCHANGED <<notDocVars, docKind, payloadLines, result, charts, sections,
                 chk, batches, batchIndex, metric, rowY>>

\* lines 314-319: checkAndAddPage(300) and the continued title
pdfCheckRequests ==
  /\ docKind = "single" /\ lpc = "checkRequests"
  /\ UNCHANGED rankVars
  /\ LET r == checkAndAddPage(doc, 300000)
     IN  /\ doc' = IF r.ret THEN moveDown(text(fontSize(r.doc, 16), 1), 2)
                            ELSE r.doc
         /\ chk' = checked(doc, 300000, r)
  /\ lpc' = "imageRequests"
  /\ UNCHANGED <<notDocVars, docKind, payloadLines, result, charts, placed,
                 sections, batches, batchIndex, metric, rowY>>

\* lines 321-328
pdfImageRequests ==
  /\ docKind = "single" /\ lpc = "imageRequests"
  /\ UNCHANGED rankVars
  /\ placed' = placed \cup {imageItem(doc, 450, 225)}
  /\ doc' = moveDown(image(doc, 450, 225), 2)
  /\ lpc' = IF "statusCodes" \in charts THEN "checkStatus" ELSE "details"
  /\ UNCHANGED <<notDocVars, docKind, payloadLines, result, charts, sections,
                 chk, batches, batchIndex, metric, rowY>>

\* lines 329-334: checkAndAddPage(250) and the continued title
pdfCheckStatus ==
  /\ docKind = "single" /\ lpc = "checkStatus"
  /\ UNCHANGED rankVars
  /\ LET r == checkAndAddPage(doc, 250000)
     IN  /\ doc' = IF r.ret THEN moveDown(text(fontSize(r.doc, 16), 1), 2)
                            ELSE r.doc
         /\ chk' = checked(doc, 250000, r)
  /\ lpc' = "imageStatus"
  /\ UNCHANGED <<notDocVars, docKind, payloadLines, result, charts, placed,
                 sections, batches, batchIndex, metric, rowY>>

\* lines 336-340
pdfImageStatus ==
  /\ docKind = "single" /\ lpc = "imageStatus"
  /\ UNCHANGED rankVars
  /\ placed' = placed \cup {imageItem(doc, 350, 175)}
  /\ sections' = sections \cup {"statusCodesChart"}
  /\ doc' = moveDown(image(doc, 350, 175), 2)
  /\ lpc' = "details"
  /\ UNCHANGED <<notDocVars, docKind, payloadLines, result, charts, chk,
                 batches, batchIndex, metric, rowY>>

\* lines 343-406: the detailed results and doc.end()
pdfDetails ==
  /\ docKind = "single" /\ lpc = "details"
  /\ UNCHANGED rankVars
  /\ LET d1 == text(fontSize(addPage(doc), 16), 1)
         d2 == text(fontSize(text(fontSize(d1, 14), 1), 12), 4)
         d3 == IF result.p1 THEN text(moveDown(d2, 1), 6) ELSE d2
         d4 == moveDown(d3, 2)
         d5 == IF d4.y > PageHeight - 200000 THEN addPage(d4) ELSE d4
         d6 == moveDown(text(fontSize(text(fontSize(d5, 14), 1), 12), 2), 2)
         d7 == moveDown(text(fontSize(text(fontSize(d6, 14), 1), 12), 2), 2)
         d8 == IF d7.y > PageHeight - 150000 THEN addPage(d7) ELSE d7
         d9 == text(fontSize(text(fontSize(d8, 14), 1), 12), 1)
     IN  doc' = IF result.hasStats
                  THEN text(text(moveDown(d9, 1), 1), result.nCodes)
                  ELSE d9
  /\ sections' = sections \cup
       (IF result.hasStats THEN {"Status Codes:"} ELSE {})
  /\ lpc' = "ended"
  /\ UNCHANGED <<notDocVars, docKind, payloadLines, result, charts, placed,
                 chk, batches, batchIndex, metric, rowY>>

\* -------------------------------- generateComparisonReport, lines 570-983

min(a, b) == IF a < b THEN a ELSE b

\* lines 822-831
pageWidth == PageWidth - (Margin + Margin)
metricColWidth == min(150000, (pageWidth * 3) \div 10)
remainingWidth == pageWidth - metricColWidth
\* A maxTests that ignores the width of the page.
maxTests_noWidthLimit(n) == n
maxTests(n) == min(n, remainingWidth \div 70000)

\* Array.prototype.slice(from, to) with 0-based from and exclusive to
slice(s, from, to) == SubSeq(s, from + 1, min(to, Len(s)))

\* lines 835-838: for (let i = 0; i < testResults.length; i += maxTests)
RECURSIVE batchesFrom(_, _, _)
batchesFrom(s, i, step) ==
  IF i < Len(s)
    THEN <<slice(s, i, i + step)>> \o batchesFrom(s, i + step, step)
    ELSE <<>>

\* lines 841-857
metrics == <<"Min Latency (ms)", "Avg Latency (ms)", "Max Latency (ms)",
             "P90 Latency (ms)", "P99 Latency (ms)", "Req/sec",
             "Total Requests", "Errors", "Throughput (KB/s)">>

rowHeight == 20000

\* A header that is drawn for the first batch only.
batchHeader_firstOnly(items, d, hY, b) ==
  IF b = 0
    THEN items \cup
           {item("header", d.page, hY, hY + lineHeight(10), b),
            item("separator", d.page, hY + 15000, hY + 15000, b)}
    ELSE items

\* lines 878-900: the header row of a batch and its separator line, drawn
\* with the header text at hY
batchHeader(items, d, hY, b) ==
  LET t == textAt(fontSize(d, 10), hY)
  IN  items \cup
        {item("header", t.page, t.y - lineHeight(10), t.y, b),
         item("separator", t.page, hY + 15000, hY + 15000, b)}

\* lines 914-940: the same header redrawn after a page break inside a table
redrawHeader(items, d, hY, b) ==
  LET t == textAt(fontSize(d, 10), hY)
  IN  items \cup
        {item("header", t.page, t.y - lineHeight(10), t.y, b),
         item("separator", t.page, hY + 15000, hY + 15000, b)}

\* Math.round(num / den) for num >= 0, den > 0
round(num, den) == (2 * num + den) \div (2 * den)

\* lines 594-614: generateColorGradient(count); a color is [r, g, b, a] with
\* the opacity a in tenths.  ratio = i / (count - 1 || 1)
generateColorGradient(count) ==
  LET den == IF count - 1 = 0 THEN 1 ELSE count - 1
  IN  [p \in 1..count |->
         LET i == p - 1
         IN  IF 2 * i < den
               THEN [r |-> 75, g |-> round(75 * den + 360 * i, den),
                     b |-> 192, a |-> 6]
               ELSE [r |-> 255, g |-> round(510 * (den - i), den),
                     b |-> round(255 * (den - i), den), a |-> 6]]

\* line 617: color.replace("0.6", "1")
borderColor(color) == [color EXCEPT !.a = 10]

\* Array.prototype.reverse()
reverse(s) == [i \in 1..Len(s) |-> s[Len(s) + 1 - i]]

\* A throughput comparator that sorts ascending.
RECURSIVE insertByThroughput_ascending(_, _)
insertByThroughput_ascending(x, s) ==
  IF s = <<>> THEN <<x>>
  ELSE IF x.rps - Head(s).rps < 0 THEN <<x>> \o s
       ELSE <<Head(s)>> \o insertByThroughput_ascending(x, Tail(s))

\* comparator (a, b) => b.result.requests.average - a.result.requests.average
RECURSIVE insertByThroughput(_, _)
insertByThroughput(x, s) ==
  IF s = <<>> THEN <<x>>
  ELSE IF Head(s).rps - x.rps < 0 THEN <<x>> \o s
       ELSE <<Head(s)>> \o insertByThroughput(x, Tail(s))

\* lines 667-669: [...testResults].sort(...), a sorted copy
RECURSIVE sortByThroughput(_)
sortByThroughput(s) ==
  IF s = <<>> THEN <<>>
  ELSE insertByThroughput(s[Len(s)],
                          sortByThroughput(SubSeq(s, 1, Len(s) - 1)))

\* lines 589-715: the two chart descriptions, built from the sorted array
comparisonCharts_of(input, sorted) ==
  LET bgColors == generateColorGradient(Len(sorted))
      borderColors == [i \in 1..Len(bgColors) |-> borderColor(bgColors[i])]
      sortedByThroughput == sortByThroughput(sorted)
  IN  [built |-> TRUE,
       input |-> input,
       latencyLabels |-> [i \in 1..Len(sorted) |-> sorted[i].name],
       latencyData |-> [i \in 1..Len(sorted) |-> sorted[i].lat],
       latencyColors |-> bgColors,
       latencyBorders |-> borderColors,
       sortedByThroughput |-> sortedByThroughput,
       reqLabels |-> [i \in 1..Len(sorted) |-> sortedByThroughput[i].name],
       reqData |-> [i \in 1..Len(sorted) |-> sortedByThroughput[i].rps],
       reqColors |-> reverse(generateColorGradient(Len(sorted))),
       reqBorders |-> reverse(borderColors)]

\* lines 571-576 and 578-721: early return, in-place sort, chart rendering
cmpSort ==
  /\ docKind = "comparison" /\ lpc = "sort"
  /\ IF Len(testResults) <= 1
       THEN /\ lpc' = "returned"
            /\ UNCHANGED <<testResults, compCharts>>
       ELSE /\ testResults' = sortByLatency(testResults)
            /\ compCharts' = comparisonCharts_of(testResults,
                                                 sortByLatency(testResults))
            /\ lpc' = "header"
  /\ UNCHANGED callouts
  /\ UNCHANGED <<mode, config, pc, scenario, proc, unhandled, response,
                 reports, dirs, started, measured, saved, genStarted,
                 chartsDone, renderFailed, docState, mkdirLog>>
  /\ UNCHANGED <<docKind, doc, payloadLines, result, charts, placed,
                 sections, chk, batches, batchIndex, metric, rowY, chartVars,
                 measureVars>>

\* lines 761-789: title, date, count and the two "Best ..." lines
cmpHeader ==
  /\ docKind = "comparison" /\ lpc = "header"
  /\ LET d1 == moveDown(text(fontSize(doc, 24), 1), 2)
         d2 == moveDown(text(fontSize(d1, 14), 1), 2)
         d3 == moveDown(text(fontSize(d2, 12), 1), 4)
         d4 == moveDown(text(fontSize(d3, 16), 1), 2)
     IN  doc' = moveDown(text(fontSize(d4, 12), 2), 4)
  /\ sections' = sections \cup {"Performance Summary"}
  /\ callouts' =
       [written |-> TRUE,
        bestLatency |-> testResults[1].name,
        bestLatencyValue |-> testResults[1].lat,
        bestThroughput |-> compCharts.sortedByThroughput[1].name,
        bestThroughputValue |-> compCharts.sortedByThroughput[1].rps]
  /\ UNCHANGED compCharts
  /\ lpc' = "checkLatency"
  /\ UNCHANGED <<notDocVars, docKind, payloadLines, result, charts, placed, chk,
                 batches, batchIndex, metric, rowY>>

\* lines 792-793 and 804: checkAndAddPage(chartHeight), chartHeight = 320
cmpCheck(at, next) ==
  /\ docKind = "comparison" /\ lpc = at
  /\ UNCHANGED rankVars
  /\ LET r == checkAndAddPage_comparison(doc, 320000)
     IN  /\ doc' = r.doc
         /\ chk' = checked(doc, 320000, r)
  /\ lpc' = next
  /\ UNCHANGED <<notDocVars, docKind, payloadLines, result, charts, placed,
                 sections, batches, batchIndex, metric, rowY>>

cmpCheckLatency == cmpCheck("checkLatency", "imageLatency")
cmpCheckThroughput == cmpCheck("checkThroughput", "imageThroughput")

\* lines 795-801
cmpImageLatency ==
  /\ docKind = "comparison" /\ lpc = "imageLatency"
  /\ UNCHANGED rankVars
  /\ LET d1 == moveDown(text(fontSize(doc, 16), 1), 2)
     IN  /\ placed' = placed \cup {imageItem(d1, 450, 250)}
         /\ doc' = moveDown(image(d1, 450, 250), 2)
  /\ lpc' = "checkThroughput"
  /\ UNCHANGED <<notDocVars, docKind, payloadLines, result, charts, sections,
                 chk, batches, batchIndex, metric, rowY>>

\* lines 806-811
cmpImageThroughput ==
  /\ docKind = "comparison" /\ lpc = "imageThroughput"
  /\ UNCHANGED rankVars
  /\ LET d1 == moveDown(text(fontSize(doc, 16), 1), 2)
     IN  /\ placed' = placed \cup {imageItem(d1, 450, 250)}
         /\ doc' = image(d1, 450, 250)
  /\ lpc' = "table"
  /\ UNCHANGED <<notDocVars, docKind, payloadLines, result, charts, sections,
                 chk, batches, batchIndex, metric, rowY>>

\* lines 814-838 and 860: new page, title, the batches
cmpTable ==
  /\ docKind = "comparison" /\ lpc = "table"
  /\ UNCHANGED rankVars
  /\ doc' = moveDown(text(fontSize(addPage(doc), 16), 1), 2)
  /\ batches' = batchesFrom(testResults, 0, maxTests(Len(testResults)))
  /\ batchIndex' = 0
  /\ lpc' = "batch"
  /\ UNCHANGED <<notDocVars, docKind, payloadLines, result, charts, placed,
                 sections, chk, metric, rowY>>

\* lines 861-906: the start of one batch: continuation page, header row,
\* separator line
cmpBatch ==
  /\ docKind = "comparison" /\ lpc = "batch"
  /\ UNCHANGED rankVars
  /\ LET d0 == IF batchIndex > 0
                 THEN moveDown(text(fontSize(addPage(doc), 16), 1), 2)
                 ELSE doc
         hY == d0.y + 10000
     IN  /\ placed' = batchHeader(placed, d0, hY, batchIndex)
         /\ doc' = textAt(fontSize(d0, 10), hY)
         /\ rowY' = hY + 15000 + 10000
  /\ metric' = 1
  /\ lpc' = "row"
  /\ UNCHANGED <<notDocVars, docKind, payloadLines, result, charts, sections,
                 chk, batches, batchIndex>>

\* lines 908-980: one row of metrics.forEach, with the page break and the
\* redrawn header where the row does not fit, then the end of the batch
cmpRow ==
  /\ docKind = "comparison" /\ lpc = "row"
  /\ UNCHANGED rankVars
  /\ LET break == rowY + rowHeight > PageHeight - Margin
         d0 == IF break THEN addPage(doc) ELSE doc
         hY == Margin + 30000
         y0 == IF break THEN hY + 15000 + 10000 ELSE rowY
         p0 == IF break THEN redrawHeader(placed, d0, hY, batchIndex)
                        ELSE placed
         d1 == textAt(fontSize(d0, 9), y0)
         fill == IF (metric - 1) % 2 = 0
                   THEN {item("fill", d0.page, y0 - 5000,
                              y0 - 5000 + rowHeight, batchIndex)}
                   ELSE {}
     IN  /\ placed' = p0 \cup fill \cup
                      {item("row", d1.page, d1.y - lineHeight(9), d1.y,
                            batchIndex)}
         /\ doc' = d1
         /\ rowY' = y0 + rowHeight
  /\ IF metric < Len(metrics)
       THEN /\ metric' = metric + 1
            /\ UNCHANGED <<batchIndex, lpc>>
       ELSE /\ metric' = 1
            /\ batchIndex' = batchIndex + 1
            /\ lpc' = IF batchIndex + 1 < Len(batches) THEN "batch" ELSE "end"
  /\ UNCHANGED <<notDocVars, docKind, payloadLines, result, charts, sections,
                 chk, batches>>

\* line 982: doc.end()
cmpEnd ==
  /\ docKind = "comparison" /\ lpc = "end"
  /\ UNCHANGED rankVars
  /\ lpc' = "ended"
  /\ UNCHANGED <<notDocVars, docKind, doc, payloadLines, result, charts, placed,
                 sections, chk, batches, batchIndex, metric, rowY>>

\* ------------------------------------------------------------------ SpecDoc

\* lines 181-233 of generateCharts: which chart buffers exist for a result
chartsOf(r) ==
  {"latency", "requests"} \cup
    (IF r.hasStats /\ r.nCodes > 0 THEN {"statusCodes"} ELSE {})

\* the arrays of n results generateComparisonReport can be called with
ResultArrays(n) ==
  {[i \in 1..n |-> [name |-> i, lat |-> f[i][1], rps |-> f[i][2]]] :
     f \in [1..n -> Metrics]}

\* runTests is at the report of its first scenario
RunAtReport ==
  /\ mode = "cli"
  /\ scenario = 1
  /\ proc = "running"
  /\ unhandled = FALSE
  /\ response = "none"
  /\ reports = "none"
  /\ dirs = {"reports", "reports/json", "charts"}
  /\ renderFailed = {}
  /\ mkdirLog = {}

InitDoc ==
  /\ RunAtReport
  /\ NoCharts
  /\ NoMeasure
  /\ doc = [y |-> Margin, page |-> 1, fontSize |-> 12]
  /\ placed = {} /\ sections = {}
  /\ chk = [called |-> FALSE]
  /\ batches = <<>> /\ batchIndex = 0 /\ metric = 0 /\ rowY = 0
  /\ compCharts = [built |-> FALSE]
  /\ callouts = [written |-> FALSE]
  /\ \/ /\ docKind = "single" /\ lpc = "header"
        /\ config \in {[kind |-> "single", n |-> 1], [kind |-> "list", n |-> 1]}
        /\ pc = "doc"
        /\ started = {1} /\ measured = {1} /\ saved = {1}
        /\ genStarted = {1} /\ chartsDone = {1}
        /\ docState = [d \in DocIds |-> "none"]
        /\ testResults = <<>>
        /\ payloadLines \in 0..MaxPayloadLines
        /\ result \in {[hasStats |-> h, nCodes |-> n, p1 |-> p] :
                         h \in BOOLEAN, n \in 0..MaxStatusCodes, p \in BOOLEAN}
        /\ result.hasStats \/ result.nCodes = 0
        /\ charts = chartsOf(result)
     \/ /\ docKind = "comparison" /\ lpc = "sort"
        /\ config = [kind |-> "list", n |-> MaxCmpScenarios]
        /\ pc = "comparison"
        /\ started = {} /\ measured = {} /\ saved = {}
        /\ genStarted = {} /\ chartsDone = {}
        /\ docState = [d \in DocIds |-> "none"]
        /\ \E n \in 1..MaxCmpScenarios : testResults \in ResultArrays(n)
        /\ payloadLines = 0
        /\ result = [hasStats |-> FALSE, nCodes |-> 0, p1 |-> FALSE]
        /\ charts = {"latencyComp", "reqComp"}

NextDoc ==
  \/ pdfHeader
  \/ pdfCheckLatency
  \/ pdfImageLatency
  \/ pdfCheckRequests
  \/ pdfImageRequests
  \/ pdfCheckStatus
  \/ pdfImageStatus
  \/ pdfDetails
  \/ cmpSort
  \/ cmpHeader
  \/ cmpCheckLatency
  \/ cmpImageLatency
  \/ cmpCheckThroughput
  \/ cmpImageThroughput
  \/ cmpTable
  \/ cmpBatch
  \/ cmpRow
  \/ cmpEnd

SpecDoc == InitDoc /\ [][NextDoc]_vars

\* ----------------------------------- generateCharts, lines 96-138: timeline

\* A property key is the decimal string of a number: a sequence of digits.
RECURSIVE toString(_)
toString(n) == IF n < 10 THEN <<n>> ELSE toString(n \div 10) \o <<n % 10>>

\* parseInt(key) of a string of digits
RECURSIVE parseInt(_)
parseInt(str) ==
  IF Len(str) = 1 THEN str[1]
  ELSE 10 * parseInt(SubSeq(str, 1, Len(str) - 1)) + str[Len(str)]

\* `${key}s`
label(key) == <<key, "s">>

\* Object.keys(obj): integer keys come in ascending numeric order
RECURSIVE objectKeys(_)
objectKeys(obj) ==
  IF DOMAIN obj = {} THEN <<>>
  ELSE LET first == CHOOSE k \in DOMAIN obj :
                      \A j \in DOMAIN obj : parseInt(k) <= parseInt(j)
       IN  <<first>> \o
             objectKeys([k \in (DOMAIN obj) \ {first} |-> obj[k]])

\* string comparison a < b by code units, as Array.prototype.sort() does
\* when it is given no comparator
RECURSIVE lexLess(_, _)
lexLess(a, b) ==
  IF a = <<>> THEN b # <<>>
  ELSE IF b = <<>> THEN FALSE
  ELSE IF a[1] # b[1] THEN a[1] < b[1]
  ELSE lexLess(Tail(a), Tail(b))

RECURSIVE insertLex(_, _)
insertLex(x, s) ==
  IF s = <<>> THEN <<x>>
  ELSE IF lexLess(x, Head(s)) THEN <<x>> \o s
       ELSE <<Head(s)>> \o insertLex(x, Tail(s))

\* A sort of the keys without the numeric comparator.
RECURSIVE sortKeys_lexicographic(_)
sortKeys_lexicographic(s) ==
  IF s = <<>> THEN <<>>
  ELSE insertLex(s[Len(s)],
                 sortKeys_lexicographic(SubSeq(s, 1, Len(s) - 1)))

\* comparator (a, b) => parseInt(a) - parseInt(b), stable
RECURSIVE insertKey(_, _)
insertKey(x, s) ==
  IF s = <<>> THEN <<x>>
  ELSE IF parseInt(x) - parseInt(Head(s)) < 0 THEN <<x>> \o s
       ELSE <<Head(s)>> \o insertKey(x, Tail(s))

\* .sort((a, b) => parseInt(a) - parseInt(b)), lines 106-108 and 120
sortKeys(s) ==
  LET RECURSIVE sorted(_)
      sorted(t) ==
        IF t = <<>> THEN <<>>
        ELSE insertKey(t[Len(t)], sorted(SubSeq(t, 1, Len(t) - 1)))
  IN  sorted(s)

\* timeKeys.forEach(key => { timelineData.push(obj[key]);
\*                           timeLabels.push(`${key}s`) })
pushAll(obj, timeKeys) ==
  [data |-> [i \in 1..Len(timeKeys) |-> obj[timeKeys[i]]],
   labels |-> [i \in 1..Len(timeKeys) |-> label(timeKeys[i])]]

\* lines 102-114: the per-second counters attached by runTest
timelineFromSamples ==
  /\ cpc = "timeline"
  /\ DOMAIN requestsTimeline # {}
  /\ LET timeKeys == sortKeys(objectKeys(requestsTimeline))
         pushed == pushAll(requestsTimeline, timeKeys)
     IN  /\ timelineData' = pushed.data
         /\ timeLabels' = pushed.labels
  /\ cpc' = "fallback"
  /\ UNCHANGED <<notChartVars, requestsTimeline, requestsKeys, duration,
                 thrown, configDuration>>

\* lines 116-129: numeric keys of result.requests
timelineFromRequests ==
  /\ cpc = "timeline"
  /\ DOMAIN requestsTimeline = {}
  /\ LET timeKeys == sortKeys(objectKeys(requestsKeys))
         pushed == pushAll(requestsKeys, timeKeys)
     IN  /\ timelineData' = pushed.data
         /\ timeLabels' = pushed.labels
  /\ cpc' = "fallback"
  /\ UNCHANGED <<notChartVars, requestsTimeline, requestsKeys, duration,
                 thrown, configDuration>>

\* result.requests.average
RequestsAverage == 7

\* lines 131-138: `result.duration || config.duration || 30`; generateCharts
\* has no binding named config, so evaluating it throws a ReferenceError
timelineFallback ==
  /\ cpc = "fallback"
  /\ IF Len(timelineData) # 0
       THEN /\ cpc' = "done"
            /\ UNCHANGED <<timelineData, timeLabels, thrown>>
       ELSE IF duration # 0
         THEN /\ timelineData' = [i \in 1..duration |-> RequestsAverage]
              /\ timeLabels' = [i \in 1..duration |-> label(toString(i))]
              /\ cpc' = "done"
              /\ UNCHANGED thrown
         ELSE /\ thrown' = "ReferenceError"
              /\ cpc' = "threw"
              /\ UNCHANGED <<timelineData, timeLabels>>
  /\ UNCHANGED <<notChartVars, requestsTimeline, requestsKeys, duration,
                 configDuration>>

\* the per-second objects runTest can build: at most MaxKeys seconds, each
\* counted at least once
CounterObjects ==
  UNION {[{toString(k) : k \in K} -> 1..MaxCount] :
           K \in {K \in SUBSET (0..MaxSecond) : Cardinality(K) <= MaxKeys}}

InitCharts ==
  /\ RunAtReport
  /\ config = [kind |-> "single", n |-> 1]
  /\ pc = "charts"
  /\ started = {1} /\ measured = {1} /\ saved = {1}
  /\ genStarted = {1} /\ chartsDone = {}
  /\ docState = [d \in DocIds |-> "none"]
  /\ testResults = <<>>
  /\ NoDoc
  /\ NoMeasure
  /\ cpc = "timeline"
  /\ requestsTimeline \in CounterObjects
  /\ requestsKeys \in {<<>>} \cup [{toString(1), toString(MaxSecond)} -> {MaxCount}]
  /\ duration \in 0..MaxDuration
  /\ timeLabels = <<>> /\ timelineData = <<>>
  /\ thrown = ""
  /\ configDuration \in {0, MaxDuration}

NextCharts ==
  \/ timelineFromSamples
  \/ timelineFromRequests
  \/ timelineFallback

SpecCharts == InitCharts /\ [][NextCharts]_vars

\* ------------------------- runTest, lines 411-488: the response handler

\* the keys of a requestsPerSecond object
keys(obj) == DOMAIN obj

RECURSIVE sumOver(_, _)
sumOver(obj, ks) ==
  IF ks = {} THEN 0
  ELSE LET k == CHOOSE k \in ks : TRUE
       IN  obj[k] + sumOver(obj, ks \ {k})

\* the sum of all per-second counts of an object
total(obj) == sumOver(obj, keys(obj))

\* lines 459-460: process.hrtime(testStart)[0], floored
elapsedSeconds(c) == (hrtime - clients[c].testStart) \div TicksPerSecond

\* A handler that restarts the second's count on every event.
onResponse_reset(obj, key) ==
  LET init == [k \in keys(obj) \cup {key} |-> IF k = key THEN 0 ELSE obj[k]]
  IN  [init EXCEPT ![key] = @ + 1]

\* lines 463-468: if (!obj[key]) obj[key] = 0; obj[key]++
onResponse(obj, key) ==
  LET init == IF key \notin keys(obj) \/ obj[key] = 0
                THEN [k \in keys(obj) \cup {key} |->
                        IF k = key THEN 0 ELSE obj[k]]
                ELSE obj
  IN  [init EXCEPT ![key] = @ + 1]

\* lines 411-445 and 474: runTests calls runTest(scenario), which makes a new
\* requestsPerSecond object and starts autocannon
runTest_call ==
  /\ proc = "running" /\ pc = "loop" /\ scenario <= config.n
  /\ started' = started \cup {scenario}
  /\ pc' = "measuring"
  /\ requestsPerSecond' = Append(requestsPerSecond, <<>>)
  /\ delivered' = Append(delivered, 0)
  /\ UNCHANGED <<clients, hrtime, attached, lastEvent>>
  /\ UNCHANGED notMeasureVars
  /\ UNCHANGED <<mode, config, scenario, proc, unhandled, response, reports,
                 dirs, measured, saved, genStarted, chartsDone, renderFailed,
                 docState, testResults, mkdirLog>>

\* lines 448-455: autocannon calls testConfig.setupClient(client) for a new
\* connection of the running measurement; connections are numbered in the
\* order they are set up
setupClient(c) ==
  /\ proc = "running" /\ pc = "measuring"
  /\ clients[c].run = 0
  /\ \A b \in 1..(c - 1) : clients[b].run # 0
  /\ clients' = [clients EXCEPT ![c] = [run |-> scenario, testStart |-> hrtime]]
  /\ UNCHANGED <<requestsPerSecond, hrtime, delivered, attached, lastEvent>>
  /\ UNCHANGED <<notMeasureVars, runVars>>

\* time passes
tick ==
  /\ hrtime < MaxTime
  /\ hrtime' = hrtime + 1
  /\ UNCHANGED <<requestsPerSecond, clients, delivered, attached, lastEvent>>
  /\ UNCHANGED <<notMeasureVars, runVars>>

\* lines 457-470: a "response" event of connection c runs its handler. The
\* handler is never removed, so an event of a connection of an earlier call
\* still runs it, on the object of that call.
responseEvent(c) ==
  /\ proc = "running"
  /\ clients[c].run # 0
  /\ total(delivered) < MaxEvents
  /\ LET r == clients[c].run
     IN  /\ requestsPerSecond' =
              [requestsPerSecond EXCEPT ![r] = onResponse(@, elapsedSeconds(c))]
         /\ delivered' = [delivered EXCEPT ![r] = @ + 1]
  /\ lastEvent' = c
  /\ UNCHANGED <<clients, hrtime, attached>>
  /\ UNCHANGED <<notMeasureVars, runVars>>

\* lines 479-487: `await instance` resolves; requestsTimeline is attached when
\* the object has a key
runTest_return ==
  /\ proc = "running" /\ pc = "measuring"
  /\ measured' = measured \cup {scenario}
  /\ pc' = "save"
  /\ attached' =
       Append(attached,
              [requestsTimeline |-> keys(requestsPerSecond[scenario]) # {},
               total |-> total(requestsPerSecond[scenario]),
               delivered |-> delivered[scenario]])
  /\ UNCHANGED <<requestsPerSecond, clients, hrtime, delivered, lastEvent>>
  /\ UNCHANGED notMeasureVars
  /\ UNCHANGED <<mode, config, scenario, proc, unhandled, response, reports,
                 dirs, started, saved, genStarted, chartsDone, renderFailed,
                 docState, testResults, mkdirLog>>

\* lines 526-545: the rest of the iteration (save, report, push), which does
\* not touch a requestsPerSecond object, then the next iteration
restOfIteration ==
  /\ proc = "running" /\ pc = "save"
  /\ saved' = saved \cup {scenario}
  /\ genStarted' = genStarted \cup {scenario}
  /\ chartsDone' = chartsDone \cup {scenario}
  /\ scenario' = scenario + 1
  /\ pc' = "loop"
  /\ UNCHANGED <<measureVars, notMeasureVars>>
  /\ UNCHANGED <<mode, config, proc, unhandled, response, reports, dirs,
                 started, measured, renderFailed, docState, testResults,
                 mkdirLog>>

\* runTests is at the top of its loop with MaxRuns scenarios to run
InitMeasure ==
  /\ RunAtReport
  /\ config = [kind |-> "list", n |-> MaxRuns]
  /\ pc = "loop"
  /\ started = {} /\ measured = {} /\ saved = {}
  /\ genStarted = {} /\ chartsDone = {}
  /\ docState = [d \in DocIds |-> "none"]
  /\ testResults = <<>>
  /\ NoDoc
  /\ NoCharts
  /\ NoMeasure

NextMeasure ==
  \/ runTest_call
  \/ \E c \in 1..MaxClients : setupClient(c)
  \/ tick
  \/ \E c \in 1..MaxClients : responseEvent(c)
  \/ runTest_return
  \/ restOfIteration

SpecMeasure == InitMeasure /\ [][NextMeasure]_vars

\* ------------------------------------------------------------------ claims

\* The run has ended: resolved, rejected, or the process is gone.
RunOver == pc \in {"done", "rejected"} \/ proc = "exited"

\* C1: in a run over config.scenarios that has ended, when the rendering of
\* some scenario's report failed, every other scenario has been measured,
\* has its JSON saved and its report flushed, and the failing scenario's
\* JSON is on disk.
C1_OtherScenariosUnaffected ==
  (config.kind = "list" /\ RunOver /\ renderFailed # {}) =>
     /\ renderFailed \subseteq saved
     /\ \A j \in (1..config.n) \ renderFailed :
          j \in measured /\ j \in saved /\ docState[j] = "flushed"

\* C2: when runTests has logged "All tests completed", no document it
\* started (per-scenario or comparison) is still waiting for 'finish'.
C2_AwaitCompletesAfterFlush ==
  pc = "done" => \A d \in DocIds : docState[d] # "ended"

\* C3: report generation (charts, document) of a scenario has only started,
\* and rendering has only failed, for scenarios whose JSON is already saved.
C3_JsonSavedBeforeRendering ==
  /\ genStarted \subseteq saved
  /\ renderFailed \subseteq saved

C3_Witness ==
  config.kind = "list" /\ 2 \in renderFailed /\ 2 \in saved

\* C4: in server mode no failure of a request or of the run it triggered
\* terminates the process or is left as an unhandled rejection.
C4_FailuresBecomeResponses ==
  mode = "server" => (proc = "running" /\ ~unhandled)

\* C5: in a run over a scenario list, report generation of scenario j starts
\* only after its measurement completed, and the measurement of scenario
\* j+1 starts only after the charts of j are rendered and its document is
\* flushed.
C5_ScenariosDoNotOverlap ==
  config.kind = "list" =>
    \A j \in 1..MaxRunScenarios :
      /\ j \in genStarted => j \in measured
      /\ (j + 1) \in started => (j \in chartsDone /\ docState[j] = "flushed")

C5_Witness ==
  config.kind = "list" /\ 2 \in started /\ 2 \in genStarted

\* C6: every chart image and every part of a table (header row, separator,
\* background fill, data row) that has been placed lies between the top of
\* its page and the bottom margin.
C6_NothingOverflowsThePage ==
  \A it \in placed : it.top >= 0 /\ it.bottom <= PageHeight - Margin

C6_Witness ==
  /\ docKind = "single" /\ lpc = "ended"
  /\ payloadLines > 0 /\ "statusCodes" \in charts
  /\ \E it \in placed : it.kind = "image" /\ it.page = 1
  /\ \E it \in placed : it.kind = "image" /\ it.page > 1

\* C7 as stated: checkAndAddPage(h) starts a new page and returns true
\* exactly when the remaining space is less than h, otherwise it leaves page
\* and cursor alone; after a page was started the remaining space is the
\* page height minus the top margin.
C7_RemainingIsHeightMinusTopMargin ==
  chk.called =>
    LET remaining == PageHeight - Margin - chk.y
        newRemaining == PageHeight - Margin - chk.newY
    IN  /\ chk.ret <=> remaining < chk.h
        /\ ~chk.ret => (chk.newY = chk.y /\ chk.newPage = chk.page)
        /\ chk.ret => (chk.newPage = chk.page + 1
                       /\ newRemaining = PageHeight - Margin)

\* C7 amended: as above, but after a page was started the remaining space is
\* the page height minus the top margin and minus the bottom margin.
C7_EnsureSpace ==
  chk.called =>
    LET remaining == PageHeight - Margin - chk.y
        newRemaining == PageHeight - Margin - chk.newY
    IN  /\ chk.ret <=> remaining < chk.h
        /\ ~chk.ret => (chk.newY = chk.y /\ chk.newPage = chk.page)
        /\ chk.ret => (chk.newPage = chk.page + 1
                       /\ newRemaining = PageHeight - Margin - Margin)

C7_Witness ==
  chk.called /\ chk.ret /\ chk.page = 1 /\ doc.page = 2

\* C8: every data row of the comparison table has, on its own page and above
\* it, the header row and the separator line of its batch.
C8_HeaderOnEveryTablePage ==
  \A r \in placed :
    r.kind = "row" =>
      /\ \E h \in placed :
           /\ h.kind = "header" /\ h.page = r.page /\ h.batch = r.batch
           /\ h.bottom <= r.top
      /\ \E l \in placed :
           /\ l.kind = "separator" /\ l.page = r.page /\ l.batch = r.batch
           /\ l.bottom <= r.top

C8_Witness ==
  /\ docKind = "comparison" /\ lpc = "ended" /\ Len(batches) >= 2
  /\ \E r \in placed : r.kind = "row" /\ r.batch = 1

\* the elements of a sequence
Range(s) == {s[i] : i \in 1..Len(s)}

RECURSIVE Flatten(_)
Flatten(ss) == IF ss = <<>> THEN <<>> ELSE Head(ss) \o Flatten(Tail(ss))

\* the detail table has its batches
BatchesBuilt ==
  docKind = "comparison" /\ lpc \in {"batch", "row", "end", "ended"}

\* C9: for N >= 2 the batches are non-empty and pairwise disjoint, their
\* concatenation is the latency-sorted testResults, and no batch has more
\* than floor(remainingWidth / 70) columns, remainingWidth being the usable
\* width minus min(150, 30% of the usable width).
C9_BatchesPartitionTheRanking ==
  (BatchesBuilt /\ Len(testResults) >= 2) =>
    LET usable == PageWidth - 2 * Margin
        metricCol == IF 150000 < (usable * 3) \div 10
                       THEN 150000 ELSE (usable * 3) \div 10
        limit == (usable - metricCol) \div 70000
    IN  /\ \A i \in 1..Len(batches) :
             batches[i] # <<>> /\ Len(batches[i]) <= limit
        /\ \A i, j \in 1..Len(batches) :
             i # j => Range(batches[i]) \cap Range(batches[j]) = {}
        /\ Flatten(batches) = testResults
        /\ \A i, j \in 1..Len(testResults) :
             i < j => testResults[i].lat <= testResults[j].lat

C9_Witness ==
  /\ BatchesBuilt /\ Len(testResults) = 5 /\ Len(batches) = 2
  /\ Len(batches[1]) = 4 /\ Len(batches[2]) = 1

\* the timeline has been reconstructed from a non-empty requestsTimeline
TimelineBuilt == cpc \in {"fallback", "done"} /\ DOMAIN requestsTimeline # {}

\* C10: for a non-empty per-second mapping the timeline is strictly
\* increasing in elapsed second, has one entry per key of the mapping with
\* that key's count, and has no entry for a second that is not a key.
C10_TimelineFollowsTheSamples ==
  TimelineBuilt =>
    /\ Len(timeLabels) = Cardinality(DOMAIN requestsTimeline)
    /\ Len(timelineData) = Len(timeLabels)
    /\ \A i \in 1..Len(timeLabels) :
         /\ timeLabels[i][2] = "s"
         /\ timeLabels[i][1] \in DOMAIN requestsTimeline
         /\ timelineData[i] = requestsTimeline[timeLabels[i][1]]
    /\ \A k \in DOMAIN requestsTimeline :
         \E i \in 1..Len(timeLabels) : timeLabels[i][1] = k
    /\ \A i, j \in 1..Len(timeLabels) :
         i < j => parseInt(timeLabels[i][1]) < parseInt(timeLabels[j][1])

C10_Witness ==
  /\ cpc = "done"
  /\ Len(timeLabels) = 3
  /\ timeLabels[1] = <<(<<2>>), "s">>
  /\ timeLabels[2] = <<(<<1, 0>>), "s">>
  /\ timelineData[1] # timelineData[2]

\* the result has no per-second samples and generateCharts has ended
NoSamplesEnded ==
  /\ cpc \in {"done", "threw"}
  /\ DOMAIN requestsTimeline = {} /\ DOMAIN requestsKeys = {}

\* C11: without per-second samples the reconstruction throws nothing and
\* yields one entry for each second 1..d, each the reported average, d being
\* result.duration, else the duration of the test configuration, else 30.
C11_FallbackTimeline ==
  NoSamplesEnded =>
    LET d == IF duration # 0 THEN duration
             ELSE IF configDuration # 0 THEN configDuration ELSE 30
    IN  /\ thrown = ""
        /\ Len(timelineData) = d /\ Len(timeLabels) = d
        /\ \A i \in 1..Len(timelineData) :
             /\ timelineData[i] = RequestsAverage
             /\ timeLabels[i] = label(toString(i))

\* the gradient of section 4.3 at position i of n, ratio = i / max(n-1, 1):
\* below 0.5 green runs from 75 to 255 with red 75 and blue 192, from 0.5 on
\* green runs from 255 to 0 with red 255 and blue half of green
GradientAt(i, n) ==
  LET den == IF n - 1 > 1 THEN n - 1 ELSE 1
  IN  IF 2 * i < den
        THEN [r |-> 75, g |-> (2 * (75 * den + 360 * i) + den) \div (2 * den),
              b |-> 192, a |-> 6]
        ELSE [r |-> 255, g |-> (2 * 510 * (den - i) + den) \div (2 * den),
              b |-> (2 * 255 * (den - i) + den) \div (2 * den), a |-> 6]

\* C12: in both comparison charts the bar at position i (0 is the best) has
\* the gradient color of ratio i / max(N-1, 1), and for N >= 2 the best bar
\* has a larger green channel than the worst.
C12_BestIsGreenInBothOrderings ==
  compCharts.built =>
    LET n == Len(compCharts.latencyLabels)
    IN  /\ Len(compCharts.latencyColors) = n
        /\ Len(compCharts.reqColors) = n
        /\ \A p \in 1..n :
             /\ compCharts.latencyColors[p] = GradientAt(p - 1, n)
             /\ compCharts.reqColors[p] = GradientAt(p - 1, n)
        /\ n >= 2 =>
             /\ compCharts.latencyColors[1].g > compCharts.latencyColors[n].g
             /\ compCharts.reqColors[1].g > compCharts.reqColors[n].g

\* the sequences a and b hold the same distinct elements
IsPermutation(a, b) ==
  /\ Len(a) = Len(b)
  /\ {a[i] : i \in 1..Len(a)} = {b[i] : i \in 1..Len(b)}
  /\ Cardinality({a[i] : i \in 1..Len(a)}) = Len(a)

\* C13: the latency ordering is the scenarios by non-decreasing average
\* latency, the throughput ordering the same scenarios by non-increasing
\* average requests per second, each callout names position 0 of its
\* ordering, and nothing is written for fewer than 2 scenarios.
C13_OrderingsAndCallouts ==
  /\ compCharts.built =>
       LET byLatency == testResults
           byThroughput == compCharts.sortedByThroughput
       IN  /\ Len(compCharts.input) >= 2
           /\ IsPermutation(byLatency, compCharts.input)
           /\ IsPermutation(byThroughput, compCharts.input)
           /\ \A i, j \in 1..Len(byLatency) :
                i < j => byLatency[i].lat <= byLatency[j].lat
           /\ \A i, j \in 1..Len(byThroughput) :
                i < j => byThroughput[i].rps >= byThroughput[j].rps
           /\ compCharts.latencyLabels =
                [i \in 1..Len(byLatency) |-> byLatency[i].name]
           /\ compCharts.reqLabels =
                [i \in 1..Len(byThroughput) |-> byThroughput[i].name]
           /\ callouts.written =>
                /\ callouts.bestLatency = byLatency[1].name
                /\ callouts.bestLatencyValue = byLatency[1].lat
                /\ callouts.bestThroughput = byThroughput[1].name
                /\ callouts.bestThroughputValue = byThroughput[1].rps
  /\ (docKind = "comparison" /\ Len(testResults) < 2) =>
       /\ lpc \in {"sort", "returned"}
       /\ ~compCharts.built /\ ~callouts.written
       /\ placed = {} /\ sections = {}

C13_Witness ==
  /\ docKind = "comparison" /\ lpc = "ended"
  /\ callouts.written
  /\ callouts.bestLatency # callouts.bestThroughput
  /\ testResults # compCharts.input
  /\ Len(testResults) >= 3

\* C14: a finished single-scenario report has the status-code pie chart and
\* the "Status Codes:" block exactly when statusCodeStats is present and
\* non-empty.
C14_StatusSectionsFollowTheStats ==
  (docKind = "single" /\ lpc = "ended") =>
    LET nonEmpty == result.hasStats /\ result.nCodes > 0
    IN  /\ "statusCodesChart" \in sections <=> nonEmpty
        /\ "Status Codes:" \in sections <=> nonEmpty

\* C15: the configuration is loaded and every directory is created before
\* the first measurement starts: a configuration failure and every call of
\* mkdirSync, failed or not, happen with no measurement begun.
C15_SetupBeforeMeasurement ==
  /\ \A a \in mkdirLog : a.started = 0
  /\ pc \in {"idle", "loadConfig"} => started = {}

\* what one response event may do to an object: add 1 to key, nothing else
AddsOneAt(before, after, key) ==
  /\ keys(after) = keys(before) \cup {key}
  /\ after[key] = (IF key \in keys(before) THEN before[key] ELSE 0) + 1
  /\ \A k \in keys(before) \ {key} : after[k] = before[k]

\* C16: a response event adds 1 to the key of the elapsed whole seconds of the
\* object of the runTest call that set its connection up and changes no other
\* key and no other call's object; nothing else changes an object; so the
\* counts of every call's object sum to the events delivered to it, also at
\* the moment the call returns.
C16_EventsOnlyIncrementTheirSecond ==
  /\ [](/\ \A r \in 1..Len(requestsPerSecond) :
             total(requestsPerSecond[r]) = delivered[r]
        /\ \A r \in 1..Len(attached) :
             /\ attached[r].total = attached[r].delivered
             /\ attached[r].requestsTimeline <=> attached[r].delivered > 0)
  /\ [][IF requestsPerSecond' = requestsPerSecond
          THEN delivered' = delivered
        ELSE IF Len(requestsPerSecond') # Len(requestsPerSecond)
          THEN /\ requestsPerSecond' = Append(requestsPerSecond, <<>>)
               /\ delivered' = Append(delivered, 0)
        ELSE IF lastEvent' = 0 THEN FALSE
        ELSE LET r == clients[lastEvent'].run
             IN  /\ r \in 1..Len(requestsPerSecond)
                 /\ AddsOneAt(requestsPerSecond[r], requestsPerSecond'[r],
                              elapsedSeconds(lastEvent'))
                 /\ delivered' = [delivered EXCEPT ![r] = @ + 1]
                 /\ \A q \in 1..Len(requestsPerSecond) :
                      q # r => requestsPerSecond'[q] = requestsPerSecond[q]
       ]_vars

\* two calls have returned; the first counted two events in one second and
\* one in another, and the second, with a connection of its own, counted one
C16_Witness ==
  /\ Len(attached) = 2
  /\ \E k1, k2 \in keys(requestsPerSecond[1]) :
       /\ k1 # k2
       /\ requestsPerSecond[1][k1] = 2
       /\ requestsPerSecond[1][k2] = 1
  /\ attached[2].delivered = 1
  /\ \E c1, c2 \in 1..MaxClients :
       clients[c1].run = 1 /\ clients[c2].run = 2

\* C17: the list of results runTests accumulates is append-only: a step
\* either leaves it as it is or adds one entry at its end, one per saved
\* scenario of a scenario list; no step removes, replaces or reorders entries.
C17_ResultsAreAppendOnly ==
  /\ [](config.kind = "list" => Len(testResults) = Cardinality(saved))
  /\ [][IF Len(testResults') = Len(testResults)
          THEN testResults' = testResults
          ELSE /\ Len(testResults') = Len(testResults) + 1
               /\ SubSeq(testResults', 1, Len(testResults)) = testResults
       ]_vars

====
